---------------------------- MODULE Spec2Model ----------------------------
(***************************************************************************)
(* A model of pyedf's binary decoders.                                     *)
(*                                                                         *)
(*   EDF+ : the three copies of EdfFile (src/pyedf/edf.py, src/__init__.py,*)
(*          src/edffile.py): the constructor's channel-table offsets and   *)
(*          the bulk read() loop, one step per file read and per test.     *)
(*   RAW  : RawFile (src/pyedf/raw.py): __init__, the with-protocol        *)
(*          (__enter__/_read_header, __exit__) and next().                 *)
(*                                                                         *)
(* A file is modelled by its length in bytes, the header fields it holds   *)
(* and the values of its data area; a read returns the bytes between the   *)
(* cursor and the end of the file, at most the number asked for.           *)
(***************************************************************************)
EXTENDS Integers, Sequences, FiniteSets, TLC

VARIABLES
    \* ---- EDF+ ----
    efile,      \* the file on disk and the copy of the decoder that reads it
    epc,        \* where the caller is: "new", "ready", "failed", "fread", "test", "returned"
    esignals,   \* self.signals: one [nsample, offset] per channel
    erecsize,   \* self._data_record_size
    eerr,       \* the exception the caller has seen ("none" if none)
    epos,       \* read(): the cursor of f
    ebyt,       \* read(): len(byt) and the position byt was read at
    ecount,     \* read(): count (src/__init__.py only)
    erecs,      \* read(): recs
    \* ---- RAW ----
    rfile,      \* the file on disk
    rpc,        \* "new", "constructed", "body", "exiting", "caller"
    fopen,      \* self._fhandle is an open file
    fpos,       \* the cursor of self._fhandle
    self,       \* the attributes _read_header has set so far
    exc,        \* the exception in flight ("none" if none)
    raised,     \* the exception as it was raised where it was detected
    seen,       \* the exception the caller has seen ("none" if none)
    result,     \* what the last next() returned
    lastread,   \* the last next(): its read (asked, got, at) and what it met
    ncalls      \* next() calls made on the open handle

evars == <<efile, epc, esignals, erecsize, eerr, epos, ebyt, ecount, erecs>>
rvars == <<rfile, rpc, fopen, fpos, self, exc, raised, seen, result, lastread, ncalls>>
vars  == <<evars, rvars>>

Min(a, b) == IF a < b THEN a ELSE b
Max(a, b) == IF a > b THEN a ELSE b

RECURSIVE SumSeq(_)
SumSeq(s) == IF s = <<>> THEN 0 ELSE Head(s) + SumSeq(Tail(s))

\* f.read(n) with the cursor at pos in a file of flen bytes: the bytes returned.
fread(flen, pos, n) == Max(0, Min(n, flen - pos))

(***************************************************************************)
(*                               EDF+                                      *)
(***************************************************************************)

\* Bounds of the EDF+ inputs.
MaxSig       == 2      \* nsignal in 0..MaxSig
MaxSamp      == 4      \* samples per record of a channel in 0..MaxSamp
MaxNdata     == 2      \* declared record count in -1..MaxNdata
MaxDataBytes == 18     \* bytes after the headers in 0..MaxDataBytes

\* The records and iterations a terminating read() can need; a longer list
\* is tracked up to this length only.
IterCap == (MaxDataBytes \div 2) + MaxNdata + 2

Copies == {"pyedf/edf.py", "__init__.py", "edffile.py"}

\* calcsize(hdr_fmt), hdr_fmt = '<8s80s80s8s8s8s44s8s8s4s'
hdr_size == 8 + 80 + 80 + 8 + 8 + 8 + 44 + 8 + 8 + 4

\* shdr_size, in shdr_order
shdr_size == <<16, 80, 8, 8, 8, 8, 8, 80, 8, 32>>

\* calcsize('<{}h'.format(n)) and calcsize('<{}i'.format(n))
calcsize_h(n) == 2 * n
calcsize_i(n) == 4 * n

\* The cursor after the ten unpack_array calls of a file with nsig channels.
table_end(nsig) == hdr_size + SumSeq(shdr_size) * nsig

\* The j-th 16-bit sample of the data area (j = 1, 2, ...): the files
\* enumerated hold the samples 1, 2, 3, ... so that every sample is told
\* apart from every other.
SampleAt(j) == j

\* sdata['offset'] and the offset left after the loop, as each copy
\* computes them: the running sum starts at 0 with 2-byte samples in
\* pyedf/edf.py and __init__.py, at curpos with 4-byte samples in edffile.py.
RECURSIVE offsets_from(_, _, _)
offsets_from(copy, offset, nsample) ==
    IF nsample = <<>> THEN <<>>
    ELSE <<offset>> \o
         offsets_from(copy,
                      offset + (IF copy = "edffile.py"
                                THEN calcsize_i(Head(nsample))
                                ELSE calcsize_h(Head(nsample))),
                      Tail(nsample))

offset_start(copy, curpos) == IF copy = "edffile.py" THEN curpos ELSE 0

channel_offsets(copy, curpos, nsample) ==
    offsets_from(copy, offset_start(copy, curpos), nsample)

\* self._data_record_size: the offset after the last channel; edffile.py
\* keeps no record size (NoSize).
NoSize == -1
data_record_size(copy, nsample) ==
    IF copy = "edffile.py" THEN NoSize
    ELSE SumSeq([i \in 1..Len(nsample) |-> calcsize_h(nsample[i])])

\* The exception class of each copy.
BadFormat(copy) ==
    IF copy = "pyedf/edf.py" THEN "BadEdfException" ELSE "BadFormatException"

\* What the constructor raises on a file, "none" if it succeeds.
init_error(f) ==
    IF f.flen < hdr_size THEN BadFormat(f.copy)                  \* len(hdr_bytes) != hdr_size
    ELSE IF f.flen < table_end(Len(f.nsample)) THEN BadFormat(f.copy)  \* len(b) != csize
    ELSE IF table_end(Len(f.nsample)) # f.nbyte THEN BadFormat(f.copy) \* curpos != nbyte
    ELSE "none"

SampleCounts ==
    UNION {[1..n -> 0..MaxSamp] : n \in 0..MaxSig}

\* The lengths of the files enumerated for the sample counts ns: a
\* truncated fixed header, a truncated channel table, or complete headers
\* followed by 0..MaxDataBytes bytes.
EdfLengths(ns) ==
    {hdr_size - 1, table_end(Len(ns)) - 1}
        \cup (table_end(Len(ns))..(table_end(Len(ns)) + MaxDataBytes))

\* The nbyte fields enumerated: as the layout gives it, or the size of the
\* fixed header alone.
EdfNbytes(ns) == {table_end(Len(ns)), hdr_size}

NoByt == [len |-> 0, at |-> 0]

\* What next() returned: nothing yet, (False, False), or (e, data[:nc]).
NoResult == [kind |-> "none", events |-> <<>>, chans |-> <<>>]
NoMore   == [kind |-> "nomore", events |-> <<>>, chans |-> <<>>]

\* self before _read_header has set anything.
NoAttrs ==
    [attrs |-> {}, nchan |-> 0, nevent |-> 0, rep |-> "", codes |-> <<>>,
     data_offset |-> 0, rec_size |-> 0]

NoRead == [did |-> FALSE, asked |-> 0, got |-> 0, at |-> 0, mismatch |-> FALSE,
           raises |-> "none"]

EdfInit ==
    /\ \E ns \in SampleCounts : \E c \in Copies, nd \in -1..MaxNdata,
                                  nb \in EdfNbytes(ns), fl \in EdfLengths(ns) :
          efile = [copy |-> c, ndata |-> nd, nsample |-> ns, nbyte |-> nb, flen |-> fl]
    /\ epc = "new"
    /\ esignals = <<>>
    /\ erecsize = 0          \* self._data_record_size = 0 before the file is read
    /\ eerr = "none"
    /\ epos = 0
    /\ ebyt = NoByt
    /\ ecount = 0
    /\ erecs = <<>>
    \* the RAW half stays at rest
    /\ rfile = [exists |-> FALSE]
    /\ rpc = "idle"
    /\ fopen = FALSE
    /\ fpos = 0
    /\ self = NoAttrs
    /\ exc = "none"
    /\ raised = "none"
    /\ seen = "none"
    /\ result = NoResult
    /\ lastread = NoRead
    /\ ncalls = 0

\* EdfFile(filename): the constructor.
EdfFile_init ==
    /\ epc = "new"
    /\ LET err == init_error(efile)
           ns  == efile.nsample
           off == channel_offsets(efile.copy, table_end(Len(ns)), ns)
       IN IF err # "none"
          THEN /\ epc' = "failed"
               /\ eerr' = err
               /\ UNCHANGED <<esignals, erecsize>>
          ELSE /\ epc' = "ready"
               /\ esignals' = [i \in 1..Len(ns) |-> [nsample |-> ns[i], offset |-> off[i]]]
               /\ erecsize' = data_record_size(efile.copy, ns)
               /\ eerr' = "none"
    /\ UNCHANGED <<efile, epos, ebyt, ecount, erecs, rvars>>

\* unpack('<{n}h', byt) of the bytes read at cursor `at`: the data area
\* starts at nbyte and every read of read() starts on a sample boundary.
unpack_h(f, at, n) == [k \in 1..n |-> SampleAt((at - f.nbyte) \div 2 + k)]

\* The loop "for s in self.signals: dat.append(ints[i:i+s.nsample]);
\* i += s.nsample", from index i on.
RECURSIVE split_channels(_, _, _)
split_channels(ints, i, signals) ==
    IF signals = <<>> THEN <<>>
    ELSE <<SubSeq(ints, i + 1, Min(i + Head(signals).nsample, Len(ints)))>> \o
         split_channels(ints, i + Head(signals).nsample, Tail(signals))

\* One data record decoded: nint, fmt, ints and dat of read().
decode_record(f, signals, at) ==
    LET nint == SumSeq([i \in 1..Len(signals) |-> signals[i].nsample])
    IN split_channels(unpack_h(f, at, nint), 0, signals)

\* The test that ends the loop of read(), after count += 1 in __init__.py.
read_stops(copy, ndata, count, len, size) ==
    IF copy = "pyedf/edf.py"
    THEN len = 0 \/ len < size
    ELSE (ndata > 0 /\ count = ndata) \/ len < size

\* read(): spos, recs = [], count = 0, open and f.seek(spos).
read_open ==
    /\ epc = "ready"
    /\ efile.copy # "edffile.py"
    /\ epos' = efile.nbyte
    /\ ecount' = 0
    /\ erecs' = <<>>
    /\ ebyt' = NoByt
    /\ epc' = "fread"
    /\ UNCHANGED <<efile, esignals, erecsize, eerr, rvars>>

\* read(): byt = f.read(self._data_record_size).
read_fread ==
    /\ epc = "fread"
    /\ LET got == fread(efile.flen, epos, erecsize)
       IN /\ ebyt' = [len |-> got, at |-> epos]
          /\ epos' = epos + got
    /\ epc' = "test"
    /\ UNCHANGED <<efile, esignals, erecsize, eerr, ecount, erecs, rvars>>

\* read(): the rest of one iteration: the count, the tests that end the
\* loop, and the decoding of a full record. recs and count are tracked up
\* to IterCap.
read_test ==
    /\ epc = "test"
    /\ LET count == IF efile.copy = "__init__.py" THEN Min(ecount + 1, IterCap) ELSE ecount
       IN /\ ecount' = count
          /\ IF read_stops(efile.copy, efile.ndata, count, ebyt.len, erecsize)
             THEN /\ epc' = "returned"
                  /\ erecs' = erecs
             ELSE /\ epc' = "fread"
                  /\ erecs' = IF Len(erecs) < IterCap
                              THEN Append(erecs, decode_record(efile, esignals, ebyt.at))
                              ELSE erecs
    /\ UNCHANGED <<efile, esignals, erecsize, eerr, epos, ebyt, rvars>>

EdfNext == EdfFile_init \/ read_open \/ read_fread \/ read_test

SpecEdf == EdfInit /\ [][EdfNext]_vars

\* read() runs on one thread that nothing else holds up: a step that can be
\* taken is taken.
FairSpecEdf == SpecEdf /\ WF_vars(EdfNext)

(***************************************************************************)
(*                       EDF+: the claims                                  *)
(***************************************************************************)

\* What the file and the decoded table give, for the statements below.
DataLen   == efile.flen - efile.nbyte
RecSize   == SumSeq([i \in 1..Len(efile.nsample) |-> 2 * efile.nsample[i]])
FirstIdx(i) == SumSeq(SubSeq(efile.nsample, 1, i - 1))   \* samples before channel i in a record
SamplesPerRecord == SumSeq(efile.nsample)
Returned  == epc = "returned"

\* Samples of channel i over all the records of recs, concatenated.
ChannelTotal(i) == SumSeq([r \in 1..Len(erecs) |-> Len(erecs[r][i])])

\* C1: when ndata >= 0 and the file holds at least ndata full records
\* (more bytes may follow), read() returns, for every channel i, exactly
\* ndata * sampleCount[i] samples over all its records.
C1_ReadYieldsDeclaredSamples ==
    (Returned /\ efile.ndata >= 0 /\ DataLen >= efile.ndata * RecSize)
        => \A i \in 1..Len(efile.nsample) :
               ChannelTotal(i) = efile.ndata * efile.nsample[i]

\* C2: after the channel table is decoded, in every copy, the offsets are
\* relative to the record (the first is 0), each channel's successor starts
\* sampleCount * 2 bytes after it, and the record size (where the copy
\* keeps one) is the sum of sampleCount * 2 over the channels.
C2_OffsetsRecordRelative ==
    (epc = "ready")
        => /\ Len(esignals) > 0 => esignals[1].offset = 0
           /\ \A i \in 1..(Len(esignals) - 1) :
                  esignals[i + 1].offset - esignals[i].offset = esignals[i].nsample * 2
           /\ erecsize # NoSize => erecsize = RecSize

\* C3: every record read() returns gives channel i the sampleCount[i]
\* samples that start at sample sum(sampleCount[j], j < i) of that record of
\* the file, and the file with sampleCount = [4,4], ndata = 1 and the one
\* record 1..8 is returned as one record, [1,2,3,4] and [5,6,7,8].
C3_Demultiplexed ==
    Returned
        => /\ \A r \in 1..Len(erecs) : \A i \in 1..Len(efile.nsample) :
                  erecs[r][i] = [k \in 1..efile.nsample[i] |->
                                    SampleAt((r - 1) * SamplesPerRecord + FirstIdx(i) + k)]
           /\ (efile.nsample = <<4, 4>> /\ efile.ndata = 1 /\ DataLen = 16)
                  => erecs = << <<(<<1, 2, 3, 4>>), (<<5, 6, 7, 8>>)>> >>

\* C4: on every file whose headers decoded, read() ends, without an error,
\* and every record it returns is a full record of the file.
C4_ReadTerminates ==
    /\ [](epc \in {"fread", "test", "returned"} => eerr = "none")
    /\ [](Returned => Len(erecs) * RecSize <= DataLen)
    /\ (epc = "ready" /\ efile.copy # "edffile.py") ~> Returned

(***************************************************************************)
(*                               RAW                                       *)
(***************************************************************************)

\* Bounds of the RAW inputs.
MaxChan  == 2      \* header.nchan in -1..MaxChan (a signed 16-bit field)
MaxEvent == 3      \* header.nevent in -1..MaxEvent (a signed 16-bit field)
MaxRecs  == 2      \* full data records in the file in 0..MaxRecs

\* next() calls tried on one handle: enough to pass the end of every file.
MaxCalls == MaxRecs + 2

\* calcsize(hdr_fmt), hdr_fmt = '>i6hi5hih'
raw_hdr_size == 4 + 6 * 2 + 4 + 5 * 2 + 4 + 2

\* nchar: the length of an event code.
nchar == 4

\* calcsize of one value of a representation: 'h', 'f', 'd'; 'x' is a pad byte.
width(char) ==
    CASE char = "h" -> 2
      [] char = "f" -> 4
      [] char = "d" -> 8
      [] OTHER      -> 1

\* A lenient variant: an unknown version tag is read as 16-bit integers.
rep_for_lenient(ver) ==
    CASE ver = 2 -> [name |-> "int", char |-> "h", known |-> TRUE]
      [] ver = 4 -> [name |-> "sfp", char |-> "f", known |-> TRUE]
      [] ver = 6 -> [name |-> "dfp", char |-> "d", known |-> TRUE]
      [] OTHER   -> [name |-> "int", char |-> "h", known |-> TRUE]

\* self.rep for a version tag, and whether _read_header goes on (known)
\* or raises 'Unknown filetype.'.
rep_for(ver) ==
    CASE ver = 2 -> [name |-> "int", char |-> "h", known |-> TRUE]
      [] ver = 4 -> [name |-> "sfp", char |-> "f", known |-> TRUE]
      [] ver = 6 -> [name |-> "dfp", char |-> "d", known |-> TRUE]
      [] OTHER   -> [name |-> "unk", char |-> "x", known |-> FALSE]

\* calcsize(code_fmt): '{}s'.format(nchar) * ncodes is empty for ncodes <= 0.
code_size(ncodes) == nchar * Max(ncodes, 0)

\* ---- the files ----

\* The values of the data area repeat this pattern from a shift on: it
\* holds flags that are 0, 1 and neither.
Pattern == <<1, 0, 1, 2, 0, 0, 1, 1, 2>>

Names == <<"aaaa", "bbbb", "cccc">>

\* The k-th code of the file's event code table: table 1 is aaaa, bbbb,
\* cccc, aaaa, ...; table 2 is cccc, bbbb, aaaa, cccc, ...
CodeAt(table, k) ==
    IF table = 1 THEN Names[((k - 1) % 3) + 1] ELSE Names[((2 * k) % 3) + 1]

\* The j-th value of the data area of file f (j = 1, 2, ...).
ValueAt(f, j) == Pattern[((j - 1 + f.shift) % Len(Pattern)) + 1]

\* Where the data area of f starts, and the bytes of one of its records.
FileDataOffset(f) == raw_hdr_size + code_size(f.nevent)
FileRecSize(f)    == width(rep_for(f.version).char) * Max(f.nchan + f.nevent, 0)

\* The lengths of the files with one complete header: the event code
\* table cut short, or 0..MaxRecs full records and then 0 or 1 byte more.
RawLengths(ver, nchan, nevent) ==
    LET doff == raw_hdr_size + code_size(nevent)
        w    == width(rep_for(ver).char)
        size == w * Max(nchan + nevent, 0)
    IN (IF nevent > 0 THEN {doff - 1} ELSE {})
       \cup {doff + r * size + t : r \in 0..(IF size > 0 THEN MaxRecs ELSE 0), t \in {0, 1}}

\* A file holds values only if it is longer than its headers by a value.
HoldsValues(f) ==
    /\ rep_for(f.version).known
    /\ f.flen >= FileDataOffset(f) + width(rep_for(f.version).char)

\* No file at the path, and a file that ends inside the header.
MissingFile ==
    [exists |-> FALSE, version |-> 2, nchan |-> 1, nevent |-> 1,
     table |-> 1, flen |-> 0, shift |-> 0]
TruncatedHeaderFile ==
    [exists |-> TRUE, version |-> 2, nchan |-> 1, nevent |-> 1,
     table |-> 1, flen |-> raw_hdr_size - 1, shift |-> 0]

RawHeaderFile(ver, nchan, nevent, tb, fl, sh) ==
    [exists |-> TRUE, version |-> ver, nchan |-> nchan, nevent |-> nevent,
     table |-> tb, flen |-> fl, shift |-> sh]

\* ---- _read_header ----

\* _read_header on file f: the exception raised ("none" if none), the
\* cursor it leaves, and the attributes it has set by then.
read_header(f) ==
    LET got1 == fread(f.flen, 0, raw_hdr_size)
        rep  == rep_for(f.version)
        hdr  == [NoAttrs EXCEPT !.attrs = {"header"}, !.nchan = f.nchan,
                                !.nevent = f.nevent]
        wrep == [hdr EXCEPT !.attrs = @ \cup {"rep"}, !.rep = rep.char]
        csz  == code_size(f.nevent)
        got2 == fread(f.flen, got1, csz)
        wcod == [wrep EXCEPT !.attrs = @ \cup {"codes", "_data_offset"},
                             !.codes = [k \in 1..Max(f.nevent, 0) |-> CodeAt(f.table, k)],
                             !.data_offset = got1 + got2]
        cnt  == f.nchan + f.nevent
    IN IF got1 # raw_hdr_size
       THEN [err |-> "BadRawException: Incomplete header.", pos |-> got1, me |-> NoAttrs]
       ELSE IF ~rep.known
       THEN [err |-> "BadRawException: Unknown filetype.", pos |-> got1, me |-> wrep]
       ELSE IF got2 # csz
       THEN [err |-> "BadRawException: Incomplete event code listing.",
             pos |-> got1 + got2, me |-> wrep]
       ELSE IF cnt < 0          \* calcsize('>-1h'): bad char in struct format
       THEN [err |-> "struct.error", pos |-> got1 + got2,
             me |-> [wcod EXCEPT !.attrs = @ \cup {"_rec_fmt"}]]
       ELSE [err |-> "none", pos |-> got1 + got2,
             me |-> [wcod EXCEPT !.attrs = @ \cup {"_rec_fmt", "_rec_size"},
                                 !.rec_size = width(rep.char) * cnt]]

\* ---- next ----

\* Python's s[k:] and s[:k] on a tuple, k of either sign.
py_from(s, k) ==
    LET start == IF k >= 0 THEN Min(k, Len(s)) ELSE Max(Len(s) + k, 0)
    IN SubSeq(s, start + 1, Len(s))
py_to(s, k) ==
    LET stop == IF k >= 0 THEN Min(k, Len(s)) ELSE Max(Len(s) + k, 0)
    IN SubSeq(s, 1, stop)

\* A variant that reads every record from the start of the data area.
raw_unpack_rewound(f, me, at) ==
    [k \in 1..(me.rec_size \div width(me.rep)) |-> ValueAt(f, k)]

\* unpack(self._rec_fmt, b) of the full record read at cursor `at`: the
\* data area starts at _data_offset and every read starts on a value.
raw_unpack(f, me, at) ==
    [k \in 1..(me.rec_size \div width(me.rep)) |->
        ValueAt(f, ((at - me.data_offset) \div width(me.rep)) + k)]

\* A variant that keeps every code whose flag is not zero.
RECURSIVE active_events_truthy(_, _)
active_events_truthy(flags, codes) ==
    IF flags = <<>> \/ codes = <<>> THEN <<>>
    ELSE (IF Head(flags) # 0 THEN <<Head(codes)>> ELSE <<>>) \o
         active_events_truthy(Tail(flags), Tail(codes))

\* [x[1] for x in zip(ev_active, self.codes) if x[0]==1]
RECURSIVE active_events(_, _)
active_events(flags, codes) ==
    IF flags = <<>> \/ codes = <<>> THEN <<>>
    ELSE (IF Head(flags) = 1 THEN <<Head(codes)>> ELSE <<>>) \o
         active_events(Tail(flags), Tail(codes))

\* A variant without the test for a short read: unpack meets a buffer of
\* the wrong size.
next_outcome_unchecked(f, me, at, got) ==
    IF got = 0
    THEN [raises |-> "none", result |-> NoMore, mismatch |-> FALSE]
    ELSE IF got < me.rec_size
    THEN [raises |-> "struct.error", result |-> NoResult, mismatch |-> FALSE]
    ELSE LET data == raw_unpack(f, me, at)
             ev_active == py_from(data, me.nchan)
         IN IF Len(ev_active) # me.nevent
            THEN [raises |-> "none", result |-> NoMore, mismatch |-> TRUE]
            ELSE [raises |-> "none", mismatch |-> FALSE,
                  result |-> [kind |-> "record",
                              events |-> active_events(ev_active, me.codes),
                              chans |-> py_to(data, me.nchan)]]

\* next() after b = f.read(self._rec_size) returned `got` bytes read at
\* cursor `at`: what it raises, what it returns, and whether it met an
\* event flag count that is not header.nevent.
next_outcome(f, me, at, got) ==
    IF got = 0
    THEN [raises |-> "none", result |-> NoMore, mismatch |-> FALSE]
    ELSE IF got < me.rec_size
    THEN [raises |-> "none", result |-> NoMore, mismatch |-> FALSE]
    ELSE LET data == raw_unpack(f, me, at)
             ev_active == py_from(data, me.nchan)
         IN IF Len(ev_active) # me.nevent
            THEN [raises |-> "none", result |-> NoMore, mismatch |-> TRUE]
            ELSE [raises |-> "none", mismatch |-> FALSE,
                  result |-> [kind |-> "record",
                              events |-> active_events(ev_active, me.codes),
                              chans |-> py_to(data, me.nchan)]]

\* ---- the life of a handle ----

\* The errors the body of a with block may raise by itself.
BodyErrors == {"KeyError"}

RawInit ==
    /\ \/ rfile \in {MissingFile, TruncatedHeaderFile}
       \/ \E ver \in {2, 4, 6, 9}, nchan \in -1..MaxChan, nevent \in -1..MaxEvent :
             \E tb \in (IF nevent > 0 THEN {1, 2} ELSE {1}),
                fl \in RawLengths(ver, nchan, nevent), sh \in 0..(Len(Pattern) - 1) :
                /\ rfile = RawHeaderFile(ver, nchan, nevent, tb, fl, sh)
                /\ sh = 0 \/ HoldsValues(rfile)
    /\ rpc = "new"
    /\ fopen = FALSE
    /\ fpos = 0
    /\ self = NoAttrs
    /\ exc = "none"
    /\ raised = "none"
    /\ seen = "none"
    /\ result = NoResult
    /\ lastread = NoRead
    /\ ncalls = 0
    \* the EDF+ half stays at rest
    /\ efile = [copy |-> "none"]
    /\ epc = "idle"
    /\ esignals = <<>>
    /\ erecsize = 0
    /\ eerr = "none"
    /\ epos = 0
    /\ ebyt = NoByt
    /\ ecount = 0
    /\ erecs = <<>>

\* RawFile(filename)
RawFile_init ==
    /\ rpc = "new"
    /\ IF ~rfile.exists
       THEN /\ raised' = "BadRawException: File does not exist."
            /\ seen' = "BadRawException: File does not exist."
            /\ rpc' = "caller"
            /\ self' = self
       ELSE /\ rpc' = "constructed"
            /\ self' = [self EXCEPT !.attrs = {"filename"}]
            /\ UNCHANGED <<raised, seen>>
    /\ UNCHANGED <<rfile, fopen, fpos, exc, result, lastread, ncalls, evars>>

\* with RawFile(...) as r: __enter__ opens the file and reads the header.
\* An exception of __enter__ goes to the caller: the body does not run and
\* __exit__ is not called.
enter ==
    /\ rpc = "constructed"
    /\ LET h == read_header(rfile)
       IN /\ fopen' = TRUE
          /\ fpos' = h.pos
          /\ self' = [h.me EXCEPT !.attrs = @ \cup {"filename", "_fhandle"}]
          /\ IF h.err # "none"
             THEN /\ raised' = h.err
                  /\ seen' = h.err
                  /\ rpc' = "caller"
             ELSE /\ rpc' = "body"
                  /\ UNCHANGED <<raised, seen>>
    /\ UNCHANGED <<rfile, exc, result, lastread, ncalls, evars>>

\* r.next(), in the body of the with block or after it.
next ==
    /\ rpc \in {"body", "caller"}
    /\ "_fhandle" \in self.attrs
    /\ ncalls < MaxCalls
    /\ ncalls' = ncalls + 1
    /\ IF "_rec_size" \notin self.attrs
       THEN \* self._rec_size: no such attribute
            /\ lastread' = [NoRead EXCEPT !.raises = "AttributeError"]
            /\ result' = NoResult
            /\ UNCHANGED fpos
       ELSE IF ~fopen
       THEN \* f.read: read of closed file
            /\ lastread' = [NoRead EXCEPT !.raises = "ValueError"]
            /\ result' = NoResult
            /\ UNCHANGED fpos
       ELSE LET got == fread(rfile.flen, fpos, self.rec_size)
                out == next_outcome(rfile, self, fpos, got)
            IN /\ lastread' = [did |-> TRUE, asked |-> self.rec_size, got |-> got,
                               at |-> fpos, mismatch |-> out.mismatch,
                               raises |-> out.raises]
               /\ result' = out.result
               /\ fpos' = fpos + got
    /\ IF lastread'.raises = "none"
       THEN UNCHANGED <<rpc, exc, raised, seen>>
       ELSE /\ raised' = lastread'.raises
            /\ IF rpc = "body"
               THEN /\ exc' = lastread'.raises
                    /\ rpc' = "exiting"
                    /\ UNCHANGED seen
               ELSE /\ seen' = lastread'.raises
                    /\ UNCHANGED <<rpc, exc>>
    /\ UNCHANGED <<rfile, fopen, self, evars>>

\* The body of the with block raises an error of its own.
body_raises ==
    /\ rpc = "body"
    /\ \E e \in BodyErrors :
          /\ exc' = e
          /\ raised' = e
    /\ rpc' = "exiting"
    /\ UNCHANGED <<rfile, fopen, fpos, self, seen, result, lastread, ncalls, evars>>

\* The body of the with block ends.
body_ends ==
    /\ rpc = "body"
    /\ rpc' = "exiting"
    /\ UNCHANGED <<rfile, fopen, fpos, self, exc, raised, seen, result, lastread,
                   ncalls, evars>>

\* What the caller sees of __exit__(extype, exvalue, extraceback): with an
\* exception in flight, "Error: "+exvalue adds a str and an exception and
\* raises TypeError in its place; without one, __exit__ returns True.
exit_seen(e) == IF e # "none" THEN "TypeError" ELSE "none"

\* __exit__: close the file, then the above.
exit ==
    /\ rpc = "exiting"
    /\ fopen' = FALSE
    /\ seen' = exit_seen(exc)
    /\ exc' = "none"
    /\ rpc' = "caller"
    /\ UNCHANGED <<rfile, fpos, self, raised, result, lastread, ncalls, evars>>

RawNext == RawFile_init \/ enter \/ next \/ body_raises \/ body_ends \/ exit

SpecRaw == RawInit /\ [][RawNext]_vars

(***************************************************************************)
(*                        RAW: the claims                                  *)
(***************************************************************************)

\* What the layout of the file gives, for the statements below.
ValuesPerRecord == rfile.nchan + rfile.nevent
FullRecords ==
    IF FileRecSize(rfile) > 0
    THEN (rfile.flen - FileDataOffset(rfile)) \div FileRecSize(rfile)
    ELSE 0

\* The j-th value of the k-th record of the file, its channel values, its
\* flags, and the codes of the table whose flag is 1, from code i on.
RecordValue(k, j) == ValueAt(rfile, (k - 1) * ValuesPerRecord + j)
RecordChans(k) == [j \in 1..rfile.nchan |-> RecordValue(k, j)]
RecordFlags(k) == [i \in 1..rfile.nevent |-> RecordValue(k, rfile.nchan + i)]
RECURSIVE RecordEventsFrom(_, _)
RecordEventsFrom(k, i) ==
    IF i > rfile.nevent THEN <<>>
    ELSE (IF RecordValue(k, rfile.nchan + i) = 1
          THEN <<CodeAt(rfile.table, i)>> ELSE <<>>) \o RecordEventsFrom(k, i + 1)
FileRecord(k) ==
    [kind |-> "record", events |-> RecordEventsFrom(k, 1), chans |-> RecordChans(k)]

\* The record of the file the last next() read.
LastIndex == ((lastread.at - FileDataOffset(rfile)) \div FileRecSize(rfile)) + 1

\* C5: when the read of next() returns no byte, or fewer bytes than one
\* record, next() returns (False, False) and raises nothing.
C5_ShortReadIsNoMore ==
    (lastread.did /\ (lastread.got = 0 \/ lastread.got < lastread.asked))
        => (result = NoMore /\ lastread.raises = "none")

C5_Witness ==
    /\ lastread.did
    /\ lastread.got > 0
    /\ lastread.got < lastread.asked
    /\ result = NoMore

\* C6: a record next() returns holds the first nchan values of the record
\* read and the codes of the table whose flag (the value at nchan + k) is
\* 1, in table order; flags 1,0,1 against aaaa,bbbb,cccc give aaaa,cccc.
C6_EventsAndChannels ==
    result.kind = "record"
        => /\ result.chans = RecordChans(LastIndex)
           /\ result.events = RecordEventsFrom(LastIndex, 1)
           /\ (RecordFlags(LastIndex) = <<1, 0, 1>> /\ self.codes = <<"aaaa", "bbbb", "cccc">>)
                  => result.events = <<"aaaa", "cccc">>

C6_Witness ==
    /\ result.kind = "record"
    /\ rfile.nchan >= 1
    /\ RecordFlags(LastIndex) = <<1, 0, 1>>
    /\ self.codes = <<"aaaa", "bbbb", "cccc">>
    /\ result.events = <<"aaaa", "cccc">>

\* C7: a file with a complete header whose version tag is not 2, 4 or 6
\* fails in __enter__ with 'Unknown filetype.', before the event code table
\* or a data record is read, and no next() on the handle decodes a record.
UnknownVersionFile ==
    rfile.exists /\ rfile.flen >= raw_hdr_size /\ rfile.version \notin {2, 4, 6}

C7_UnknownVersionFailsEarly ==
    (UnknownVersionFile /\ rpc \notin {"new", "constructed"})
        => /\ rpc = "caller"
           /\ ncalls = 0 => (raised = "BadRawException: Unknown filetype." /\ seen = raised)
           /\ "codes" \notin self.attrs
           /\ fpos = raw_hdr_size
           /\ ~lastread.did
           /\ result.kind # "record"

C7_Witness ==
    /\ UnknownVersionFile
    /\ rfile.flen > raw_hdr_size
    /\ rpc = "caller"
    /\ ncalls > 0
    /\ lastread.raises = "AttributeError"

\* C8: when control is back with the caller, on every path, the file the
\* handle opened is closed.
C8_FileReleased == rpc = "caller" => ~fopen

\* C9: an error reaches the caller as it was raised, also through __exit__,
\* and an event flag count that is not header.nevent is raised as an error.
C9_ErrorsReachCaller ==
    /\ rpc = "caller" => seen = raised
    /\ lastread.mismatch => lastread.raises # "none"

\* C10, as claimed: on an open handle over a file of N full records, the
\* k-th next() returns the k-th record for k <= N and moves the cursor on by
\* one record size, never back; every later call returns (False, False).
C10_SequentialCursor ==
    [][(rpc = "body" /\ ncalls' = ncalls + 1)
          => /\ fpos' >= fpos
             /\ IF ncalls' <= FullRecords
                THEN result' = FileRecord(ncalls') /\ fpos' = fpos + FileRecSize(rfile)
                ELSE result' = NoMore]_vars

\* C10, amended: the same, for headers whose nchan and nevent are not
\* negative.
C10_SequentialCursorWellFormed ==
    [][(rpc = "body" /\ ncalls' = ncalls + 1 /\ rfile.nchan >= 0 /\ rfile.nevent >= 0)
          => /\ fpos' >= fpos
             /\ IF ncalls' <= FullRecords
                THEN result' = FileRecord(ncalls') /\ fpos' = fpos + FileRecSize(rfile)
                ELSE result' = NoMore]_vars

C10_Witness ==
    /\ rpc = "body"
    /\ rfile.nchan >= 1 /\ rfile.nevent >= 1
    /\ FullRecords >= 2
    /\ rfile.flen > FileDataOffset(rfile) + FullRecords * FileRecSize(rfile)
    /\ ncalls = FullRecords + 2
    /\ result = NoMore
    /\ fpos = rfile.flen

=============================================================================
